---- MODULE Spec2Model ----
(***************************************************************************)
(* A model of streamlit_app.py: the cached synthetic-data generator        *)
(* load_mock, the client-side date filter, the empty/validation states     *)
(* and the per-session ack_walkthrough flag, under the framework's         *)
(* rerun-on-interaction execution.                                         *)
(*                                                                         *)
(* Time is in seconds since the epoch (UTC).  A calendar date is a day     *)
(* number (seconds \div one day); a pandas Timestamp is kept in seconds.   *)
(* amount_usd is kept in hundredths of a dollar.  The numpy generator is   *)
(* an abstract deterministic stream: its state is a number, a new          *)
(* generator starts at the seed, every draw advances the state.            *)
(***************************************************************************)
EXTENDS Integers, Sequences, FiniteSets, TLC

VARIABLES
    now,            \* wall clock, seconds since the epoch (UTC)
    utcoffset,      \* the server's time zone, seconds east of UTC
    ticks,          \* number of clock advances so far (bounds the run)
    cache,          \* st.cache_data store of load_mock: key -> [value, stored]
    execs,          \* history: every execution of load_mock's body
    session_state,  \* per session: st.session_state (a function on its keys)
    shown,          \* per session: the "Got it" button is on the screen
    view,           \* what the last rerun (or direct call) did and rendered
    nRuns           \* number of reruns so far (bounds the run)

vars == <<now, utcoffset, ticks, cache, execs, session_state, shown, view, nRuns>>

-----------------------------------------------------------------------------
(* Bounds of the model *)

MaxRuns == 4
MaxViewRuns == 2
MaxCacheRuns == 3
MaxTicks == 2
MaxDaySpan == 2
MaxGenDays == 3

(* Program constants *)

TTL == 600
Seed == 42
SliderMin == 7
SliderMax == 180
TxLow == 800
TxHigh == 3000

Day == 24 * 3600

Sessions == {"s1", "s2"}

all_projects == <<"uniswap", "aave", "curve", "balancer", "sushiswap">>

(* The slider positions the model tries: the lowest MaxDaySpan ones. *)
DayChoices == {d \in SliderMin..SliderMax : d < SliderMin + MaxDaySpan}

(* The multiselect returns the chosen options in the order chosen. *)
Selections == {<<>>, <<"aave">>, <<"uniswap", "aave">>}

(* Server start instants: noon, and five minutes before UTC midnight. *)
StartTimes == {1000 * Day + 12 * 3600, 1001 * Day - 300}

Offsets == {-7200, 0, 7200}

-----------------------------------------------------------------------------
(* Dates *)

\* pd.Timestamp.utcnow().normalize(): midnight (UTC) of the current UTC day
utcnow_normalize(t) == t - (t % Day)

\* Series.dt.date of a UTC timestamp: its calendar date
dt_date(ts) == ts \div Day

\* date.today(): the calendar date in the server's local time zone
date_today(t, off) == (t + off) \div Day

\* faulty variant: the range starts at e instead of ending there
date_range_from_start(e, n) == [i \in 1..n |-> e + (i - 1) * Day]

\* pd.date_range(end=e, periods=n, freq="D")
date_range(e, n) == [i \in 1..n |-> e - (n - i) * Day]

-----------------------------------------------------------------------------
(* Column construction *)

\* faulty variant: the days are not repeated
np_repeat_none(a, k) == a

\* np.repeat(a, k): every element k times, in place
np_repeat(a, k) == [i \in 1..(Len(a) * k) |-> a[((i - 1) \div k) + 1]]

\* faulty variant: every project k times in place
tuple_mul_in_place(p, k) == [i \in 1..(Len(p) * k) |-> p[((i - 1) \div k) + 1]]

\* tuple * k: the tuple k times over
tuple_mul(p, k) == [i \in 1..(Len(p) * k) |-> p[((i - 1) % Len(p)) + 1]]

-----------------------------------------------------------------------------
(* The random generator *)

\* the state of a generator after n draws from state s: every draw moves the
\* state by a fixed odd increment
RngAfter(s, n) == (s + n * 40503) % 65537

\* the raw output of the i-th draw from state s
Raw(s, i) == RngAfter(s, i)

\* faulty variant: a generator seeded from the clock
unseeded_rng == now % 65537

\* np.random.default_rng(42): the state of a new generator
default_rng == Seed

\* rs.integers(800, 3000, size=n) with the generator in state s
integers(s, n) == [i \in 1..n |-> TxLow + (Raw(s, i) % (TxHigh - TxLow))]

\* rs.uniform(0.5, 2.0, size=n) with the generator in state s, in thousandths
uniform(s, n) == [i \in 1..n |-> 500 + (Raw(s, i) % 1500)]

\* (x / 1000).round(2) in hundredths: round half to even
round2(x) ==
    LET q == x \div 10
        r == x % 10
    IN  IF r > 5 \/ (r = 5 /\ q % 2 = 1) THEN q + 1 ELSE q

-----------------------------------------------------------------------------
(* load_mock *)

\* the body of load_mock, executed at instant t
load_mock_body(days, projects, t) ==
    LET rng == date_range(utcnow_normalize(t), days)
        day == np_repeat(rng, Len(projects))
        project == tuple_mul(projects, Len(rng))
        n == Len(day)
        rs == default_rng
        tx_count == integers(rs, n)
        factor == uniform(RngAfter(rs, n), n)
    IN  [i \in 1..n |->
            [day |-> day[i], project |-> project[i], tx_count |-> tx_count[i],
             amount_usd |-> round2(tx_count[i] * factor[i])]]

Key(days, projects) == [days |-> days, projects |-> projects]

\* faulty variant: an entry is still served at the age of the ttl
FreshInclusive(c, k, t) == k \in DOMAIN c /\ t - c[k].stored <= TTL

\* a cache entry is served while its age is below the ttl
Fresh(c, k, t) == k \in DOMAIN c /\ t - c[k].stored < TTL

\* @st.cache_data(ttl=600) around load_mock: the value returned, whether the
\* body was executed, and the cache afterwards
load_mock(c, days, projects, t) ==
    LET k == Key(days, projects)
    IN  IF Fresh(c, k, t)
        THEN [value |-> c[k].value, executed |-> FALSE, cache |-> c]
        ELSE LET v == load_mock_body(days, projects, t)
             IN  [value |-> v, executed |-> TRUE,
                  cache |-> [x \in DOMAIN c \cup {k} |->
                                IF x = k THEN [value |-> v, stored |-> t] ELSE c[x]]]

-----------------------------------------------------------------------------
(* The client-side date filter: d1 is the tuple the date input returned *)

\* faulty variant: the end of the range is excluded
InRangeOpenEnd(r, d1) == dt_date(r.day) >= d1[1] /\ dt_date(r.day) < d1[Len(d1)]

InRange(r, d1) == dt_date(r.day) >= d1[1] /\ dt_date(r.day) <= d1[Len(d1)]

DateFilter(df, d1) == SelectSeq(df, LAMBDA r : InRange(r, d1))

-----------------------------------------------------------------------------
(* One rerun of the script *)

ack_key == "ack_walkthrough"

\* what the date input returns: its default, one date before the default
\* range (a range being picked), or the last two days
Picks == {"default", "before", "recent"}

\* line 57: the default of the date input
DefaultRange(days, d2) == <<d2 - (days - 1), d2>>

DateInput(pick, days, d2) ==
    IF pick = "default" THEN DefaultRange(days, d2)
    ELSE IF pick = "before" THEN <<d2 - days>>
    ELSE <<d2 - 1, d2>>

\* the elements rendered after the validation states, in script order
Sections == <<"kpi", "chart", "table", "csv", "breakdown", "about">>

InfoSelect == "info: Select at least one project in the sidebar."
WarnNoRows == "warning: No rows for this date range."

\* faulty variant: the empty result is tested before the empty selection
RenderRowsFirst(selected, df) ==
    IF df = <<>> THEN <<WarnNoRows>>
    ELSE IF selected = <<>> THEN <<InfoSelect>>
    ELSE Sections

\* lines 65-72 and what follows: the messages and sections a rerun renders
Render(selected, df) ==
    IF selected = <<>> THEN <<InfoSelect>>
    ELSE IF df = <<>> THEN <<WarnNoRows>>
    ELSE Sections

\* faulty variant: the flag is reset in every rerun
InitFlagAlways(ss) == [k \in {ack_key} |-> FALSE]

\* lines 37-38: the flag is created, False, only when it is absent
InitFlag(ss) == IF ack_key \in DOMAIN ss THEN ss ELSE [k \in {ack_key} |-> FALSE]

\* line 46: the button is rendered only while the flag is False
ButtonOffered(ss) == ~ss[ack_key]

\* lines 47-48: a press of the rendered button sets the flag
PressFlag(ss, pressed) == IF pressed THEN [ss EXCEPT ![ack_key] = TRUE] ELSE ss

\* faulty variant: the selection is passed as it is
ProjectsArgUnguarded(selected) == selected

\* line 60: the projects handed to load_mock
ProjectsArg(selected) == IF selected # <<>> THEN selected ELSE all_projects

NoView ==
    [kind |-> "none", sess |-> "none", offered |-> FALSE, pressed |-> FALSE,
     args |-> Key(0, <<>>), executed |-> FALSE, loaded |-> <<>>,
     selected |-> <<>>, d1 |-> <<0>>, default_range |-> FALSE,
     df |-> <<>>, out |-> <<>>]

Exec(days, projects, t, v) ==
    [days |-> days, projects |-> projects, at |-> t, value |-> v]

\* the history of body executions after a call
Executed(call, days, projects, t) ==
    IF call.executed THEN execs \cup {Exec(days, projects, t, call.value)} ELSE execs

\* One rerun of the script in session s, with the widgets as given; clicked:
\* the rerun was triggered by a click on the "Got it" button.
Rerun(s, days, selected, pick, clicked) ==
    /\ nRuns < MaxRuns
    /\ clicked => shown[s]
    /\ LET ss0 == InitFlag(session_state[s])
           offered == ButtonOffered(ss0)
           pressed == offered /\ clicked
           d2 == date_today(now, utcoffset)
           d1 == DateInput(pick, days, d2)
           projects == ProjectsArg(selected)
       IN  \* line 60: the one call of load_mock in the rerun
           \E call \in {load_mock(cache, days, projects, now)} :
             LET df == DateFilter(call.value, d1)
             IN  /\ session_state' = [session_state EXCEPT ![s] = PressFlag(ss0, pressed)]
                 /\ shown' = [shown EXCEPT ![s] = offered]
                 /\ cache' = call.cache
                 /\ execs' = Executed(call, days, projects, now)
                 /\ view' = [kind |-> "rerun", sess |-> s, offered |-> offered,
                             pressed |-> pressed, args |-> Key(days, projects),
                             executed |-> call.executed, loaded |-> call.value,
                             selected |-> selected, d1 |-> d1,
                             default_range |-> (pick = "default"),
                             df |-> df, out |-> Render(selected, df)]
    /\ nRuns' = nRuns + 1
    /\ UNCHANGED <<now, utcoffset, ticks>>

\* time passes between reruns
Advance(dt) ==
    /\ ticks < MaxTicks
    /\ now' = now + dt
    /\ ticks' = ticks + 1
    /\ UNCHANGED <<utcoffset, cache, execs, session_state, shown, view, nRuns>>

\* a server started at one of the instants T in one of the time zones O
InitAt(T, O) ==
    /\ now \in T
    /\ utcoffset \in O
    /\ ticks = 0
    /\ cache = <<>>
    /\ execs = {}
    /\ session_state = [s \in Sessions |-> <<>>]
    /\ shown = [s \in Sessions |-> FALSE]
    /\ view = NoView
    /\ nRuns = 0

-----------------------------------------------------------------------------
(* The view: one session works the project selection and the date input. *)

Init == InitAt(StartTimes, Offsets)

Next ==
    \/ \E selected \in Selections, pick \in Picks :
          nRuns < MaxViewRuns /\ Rerun("s1", SliderMin, selected, pick, FALSE)
    \/ Advance(TTL \div 2)

Spec == Init /\ [][Next]_vars

-----------------------------------------------------------------------------
(* The cache: one session works the slider and the project selection,      *)
(* and time passes in steps that meet the ttl exactly and miss it by one.  *)
(* The server starts five minutes before UTC midnight.                     *)

InitCache == InitAt({1001 * Day - 300}, {0})

NextCache ==
    \/ \E days \in DayChoices, selected \in {<<>>, <<"aave">>} :
          nRuns < MaxCacheRuns /\ Rerun("s1", days, selected, "default", FALSE)
    \/ \E dt \in {TTL \div 2, TTL - 1} : Advance(dt)

SpecCache == InitCache /\ [][NextCache]_vars

-----------------------------------------------------------------------------
(* The sessions: two sessions rerun the script, with or without a click.   *)

InitSession == InitAt({1000 * Day + 12 * 3600}, {0})

NextSession ==
    \/ \E s \in Sessions, clicked \in BOOLEAN :
          Rerun(s, SliderMin, <<"aave">>, "default", clicked)
    \/ Advance(TTL)

SpecSession == InitSession /\ [][NextSession]_vars

-----------------------------------------------------------------------------
(* load_mock and the date filter as functions of their inputs: the initial *)
(* state draws day count, projects and date range, and the two steps apply *)
(* load_mock and then the filter.                                          *)

\* non-empty tuples of distinct identifiers
ProjectTuples ==
    LET P == {"uniswap", "aave", "curve"}
    IN  {<<p>> : p \in P}
        \cup {t \in P \X P : t[1] # t[2]}
        \cup {t \in P \X P \X P : t[1] # t[2] /\ t[1] # t[3] /\ t[2] # t[3]}

\* date ranges around the generated days, reversed ones included
Ranges(t) ==
    LET D == (dt_date(t) - MaxGenDays)..(dt_date(t) + 1)
    IN  {<<a>> : a \in D} \cup (D \X D)

InitPure ==
    /\ now \in StartTimes
    /\ utcoffset = 0
    /\ ticks = 0
    /\ cache = <<>>
    /\ execs = {}
    /\ session_state = [s \in Sessions |-> <<>>]
    /\ shown = [s \in Sessions |-> FALSE]
    /\ nRuns = 0
    /\ \E days \in 1..MaxGenDays, projects \in ProjectTuples, d1 \in Ranges(now) :
          view = [NoView EXCEPT !.kind = "input", !.args = Key(days, projects),
                                !.d1 = d1]

\* load_mock(days, projects), called directly
Generate ==
    /\ view.kind = "input"
    /\ \E call \in {load_mock(cache, view.args.days, view.args.projects, now)} :
          /\ cache' = call.cache
          /\ execs' = Executed(call, view.args.days, view.args.projects, now)
          /\ view' = [view EXCEPT !.kind = "generated", !.executed = call.executed,
                                  !.loaded = call.value]
    /\ UNCHANGED <<now, utcoffset, ticks, session_state, shown, nRuns>>

\* line 63 applied to what was generated
Filter ==
    /\ view.kind = "generated"
    /\ view' = [view EXCEPT !.kind = "filtered", !.df = DateFilter(view.loaded, view.d1)]
    /\ UNCHANGED <<now, utcoffset, ticks, cache, execs, session_state, shown, nRuns>>

NextPure == Generate \/ Filter

SpecPure == InitPure /\ [][NextPure]_vars

-----------------------------------------------------------------------------
(* Properties *)

\* C1: for every day count >= 1 and every non-empty tuple of distinct projects,
\* load_mock returns exactly day_count * |project_set| rows.
C1_RowCount ==
    view.kind \in {"generated", "filtered"}
        => Len(view.loaded) = view.args.days * Len(view.args.projects)

C1_Witness ==
    /\ view.kind = "generated"
    /\ view.args.days = 3
    /\ Len(view.args.projects) = 2
    /\ Len(view.loaded) = 6

\* C2: every (day, project) pair of the generated days and the given projects
\* appears exactly once, days are the outer grouping and projects the inner
\* one: the rows of the first day in project order, then those of the second
\* day, and so on.
C2_PairsOnceDaysOuter ==
    view.kind \in {"generated", "filtered"} =>
        LET df == view.loaded
            projects == view.args.projects
            np == Len(projects)
            nd == view.args.days
            DaySet == {df[k].day : k \in DOMAIN df}
        IN  /\ Len(df) = nd * np
            /\ Cardinality(DaySet) = nd
            /\ \A d \in DaySet, j \in 1..np :
                  Cardinality({k \in DOMAIN df :
                                  df[k].day = d /\ df[k].project = projects[j]}) = 1
            /\ \A i \in 1..nd, j \in 1..np :
                  /\ df[(i - 1) * np + j].project = projects[j]
                  /\ df[(i - 1) * np + j].day = df[(i - 1) * np + 1].day
            /\ \A i \in 1..(nd - 1) : df[(i - 1) * np + 1].day < df[i * np + 1].day

C2_Witness ==
    /\ view.kind = "generated"
    /\ view.args = Key(2, <<"curve", "uniswap", "aave">>)
    /\ [k \in 1..6 |-> view.loaded[k].project]
          = <<"curve", "uniswap", "aave", "curve", "uniswap", "aave">>
    /\ view.loaded[3].day < view.loaded[4].day

\* C6: the days of load_mock(day_count, ...) are exactly the day_count
\* calendar days that end at the UTC date of the generation instant; in row
\* order a day is followed by itself or by the next day, never a gap.
C6_ContiguousDaysEndingToday ==
    view.kind \in {"generated", "filtered"} =>
        LET df == view.loaded
            nd == view.args.days
            last == now \div Day
        IN  /\ {dt_date(df[k].day) : k \in DOMAIN df} = (last - nd + 1)..last
            /\ \A k \in DOMAIN df : df[k].day % Day = 0
            /\ \A k \in 1..(Len(df) - 1) :
                  df[k + 1].day = df[k].day \/ df[k + 1].day = df[k].day + Day

C6_Witness ==
    /\ view.kind = "generated"
    /\ view.args.days = 3
    /\ now % Day # 0
    /\ dt_date(view.loaded[1].day) = (now \div Day) - 2
    /\ dt_date(view.loaded[Len(view.loaded)].day) = now \div Day

\* C4: the date filter with range [d1, d2] keeps exactly the rows whose day is
\* within d1 <= day <= d2, in their order and unchanged; with d1 > d2 the
\* result is empty.
C4_FilterInclusive ==
    view.kind = "filtered" =>
        LET src == view.loaded
            lo == view.d1[1]
            hi == view.d1[Len(view.d1)]
            Kept == {k \in DOMAIN src : lo <= src[k].day \div Day /\ src[k].day \div Day <= hi}
            Nth(m) == CHOOSE k \in Kept : Cardinality({x \in Kept : x < k}) = m - 1
        IN  /\ Len(view.df) = Cardinality(Kept)
            /\ \A m \in 1..Len(view.df) : view.df[m] = src[Nth(m)]
            /\ lo > hi => view.df = <<>>

C4_Witness ==
    /\ view.kind = "filtered"
    /\ Len(view.d1) = 2
    /\ Len(view.loaded) = 6
    /\ Len(view.df) = 4
    /\ view.df[1] = view.loaded[3]
    /\ dt_date(view.df[4].day) = view.d1[2]

\* C5: a rerun with an empty project selection, or with an empty filtered
\* result, renders one message and none of the KPI, chart, table, CSV or
\* breakdown steps; the two messages differ, and with both conditions the
\* empty-selection message is the one shown.
C5_EmptyStatesStop ==
    view.kind = "rerun" =>
        /\ view.selected = <<>> => view.out = <<InfoSelect>>
        /\ (view.selected # <<>> /\ view.df = <<>>) => view.out = <<WarnNoRows>>
        /\ (view.selected = <<>> \/ view.df = <<>>)
              => \A i \in DOMAIN view.out, j \in DOMAIN Sections : view.out[i] # Sections[j]
        /\ InfoSelect # WarnNoRows

C5_Witness ==
    /\ view.kind = "rerun"
    /\ view.selected = <<>>
    /\ view.loaded # <<>>
    /\ view.df = <<>>
    /\ view.out = <<InfoSelect>>

\* C7: load_mock is never invoked with an empty project tuple: an empty
\* selection passes the five candidates, and the day count passed is within
\* the slider's [7, 180].
C7_NeverEmptyProjects ==
    /\ view.kind = "rerun" =>
          /\ view.args.projects # <<>>
          /\ view.selected = <<>> => (view.args.projects = all_projects /\ Len(view.args.projects) = 5)
          /\ view.selected # <<>> => view.args.projects = view.selected
          /\ view.args.days >= 7 /\ view.args.days <= 180
    /\ \A k \in DOMAIN cache : k.projects # <<>> /\ k.days \in 7..180
    /\ \A e \in execs : e.projects # <<>> /\ e.days \in 7..180

C7_Witness ==
    /\ view.kind = "rerun"
    /\ view.selected = <<>>
    /\ view.executed
    /\ Len(view.loaded) = 5 * view.args.days

\* C3: a rerun whose (days, projects) pair was computed less than 600 seconds
\* ago gets the stored result and the body does not run; a rerun whose pair is
\* absent or was stored 600 seconds ago or more runs the body, stores the
\* result, and the result has the shape (row count, project order, day
\* pattern) of the one it replaces.
C3_CacheTTL ==
    [][nRuns' = nRuns + 1 =>
        LET k == view'.args
            old == cache[k].value
            new == view'.loaded
        IN  /\ (k \in DOMAIN cache /\ now - cache[k].stored < 600)
                  => (~view'.executed /\ new = old /\ execs' = execs /\ cache' = cache)
            /\ (k \notin DOMAIN cache \/ now - cache[k].stored >= 600)
                  => /\ view'.executed
                     /\ execs' # execs
                     /\ cache'[k] = [value |-> new, stored |-> now]
            /\ (k \in DOMAIN cache /\ now - cache[k].stored >= 600)
                  => /\ Len(new) = Len(old)
                     /\ \A i \in DOMAIN new :
                           /\ new[i].project = old[i].project
                           /\ new[i].day - new[1].day = old[i].day - old[1].day
    ]_vars

C3_Witness ==
    /\ view.kind = "rerun"
    /\ ~view.executed
    /\ Cardinality({e \in execs : Key(e.days, e.projects) = view.args}) = 2
    /\ \E e \in execs : Key(e.days, e.projects) = view.args /\ e.at = now - 600

\* C8: two executions of the body with the same day count and projects give
\* the same tx_count and amount_usd row for row, and so does a result served
\* from the cache; only the day column can differ.
C8_SeededDraws ==
    LET Metrics(v) == [i \in DOMAIN v |-> <<v[i].tx_count, v[i].amount_usd>>]
    IN  /\ \A e1, e2 \in execs :
              (e1.days = e2.days /\ e1.projects = e2.projects)
                  => Metrics(e1.value) = Metrics(e2.value)
        /\ view.kind = "rerun" =>
              \A e \in execs :
                  Key(e.days, e.projects) = view.args => Metrics(e.value) = Metrics(view.loaded)

C8_Witness ==
    \E e1, e2 \in execs :
        /\ e1.days = e2.days /\ e1.projects = e2.projects
        /\ e1.at < e2.at
        /\ e1.value[1].day # e2.value[1].day
        /\ e1.value[1].tx_count = e2.value[1].tx_count

\* C9: a session's ack_walkthrough flag is created False when absent, changes
\* only from False to True and only by a press of the button in a rerun of
\* that session, and stays True; the button is offered only while the flag is
\* False; a rerun of one session changes no other session's flag; a result
\* stored by any session is served to every session.
C9_FlagPerSession ==
    [][\A s \in Sessions :
        LET before == session_state[s]
            after == session_state'[s]
            has == ack_key \in DOMAIN before
            mine == nRuns' = nRuns + 1 /\ view'.sess = s
        IN  /\ has => ack_key \in DOMAIN after
            /\ (has /\ before[ack_key]) => after[ack_key]
            /\ after # before =>
                  /\ mine
                  /\ IF has THEN ~before[ack_key] /\ after[ack_key] /\ view'.pressed
                     ELSE after = [x \in {ack_key} |-> FALSE]
            /\ (mine /\ view'.offered) => (~has \/ ~before[ack_key])
            /\ (mine /\ view'.pressed) => (view'.offered /\ after[ack_key])
            /\ (mine /\ view'.args \in DOMAIN cache
                     /\ now - cache[view'.args].stored < 600)
                  => (~view'.executed /\ view'.loaded = cache[view'.args].value)
    ]_vars

C9_Witness ==
    /\ nRuns = 4
    /\ ack_key \in DOMAIN session_state["s1"]
    /\ session_state["s1"][ack_key]
    /\ ack_key \in DOMAIN session_state["s2"]
    /\ ~session_state["s2"][ack_key]
    /\ view.sess = "s1"
    /\ ~view.offered
    /\ ~view.executed

\* C10: with the date input left at its default, the filter keeps every row
\* load_mock returned.
C10_DefaultKeepsAll ==
    (view.kind = "rerun" /\ view.default_range) => view.df = view.loaded

====
